---- MODULE Spec2Model ----
(***************************************************************************)
(* Test-session lifecycle and answer evaluation of the PDF test generator  *)
(* backend (src/backend): the question/session/link/answer/result tables,  *)
(* the request handlers of main.py and company_routes.py, the session      *)
(* builder of test_generator.py, the evaluator of evaluator.py and the     *)
(* judge adapter of gemini_service.py.                                     *)
(*                                                                         *)
(* A table is a sequence of rows; a row's primary key is its index, which  *)
(* is what an autoincrementing integer key gives when rows are never       *)
(* deleted (no handler deletes).  A nullable column holds NULL.            *)
(* An evaluation is a coroutine: it runs atomically between two awaits,    *)
(* and its only await is the judge call of one question.  The other        *)
(* handlers touch the store after their last await, in one step.           *)
(* Left out: the created_at columns and TestQuestion.bookmarked, which no  *)
(* handler reads or changes after the row is inserted.                     *)
(***************************************************************************)
EXTENDS Integers, Sequences, FiniteSets, TLC

\* ---------------------------------------------------------------- bounds
MaxSessions  == 2   \* rows of test_sessions
MaxQuestions == 2   \* rows of questions
MaxClock     == 2   \* distinct readings of datetime.utcnow()
MaxTasks     == 2   \* submit requests in flight at once
MaxResults   == 2   \* rows of results
MaxOption    == 2   \* characters of one option string
MaxList      == 2   \* elements of one options list
MaxText      == 5   \* tokens of one model response
MaxCalls     == 3   \* calls of get_or_fetch_profile
MaxBatch == MaxQuestions     \* questions of one upload or one generated assessment
MaxAnswers == MaxQuestions   \* rows of answers

\* ------------------------------------------------------------ value sets
NULL == 0                       \* a nullable DateTime/Integer column left unset
None == "<None>"                \* Python's None where a string is expected
Missing == "<missing>"          \* a key absent from a JSON object

Texts == {"q1", "q2"}           \* question texts
PdfName == "paper.pdf"          \* file.filename of an upload
Companies == {"acme"}           \* request.company of a generated assessment
Letters == {"A", "B"}           \* option letters a candidate can submit
UserAnswers == Letters \cup {None}

MinDuration == 1
MaxDuration == 240
Durations == {MinDuration, MaxDuration}   \* duration_minutes that pass validation
CompanyDuration == 90

\* ------------------------------------------------------------------ state
VARIABLES
    apiKey,     \* gemini_service.API_KEY is set (read once at import)
    now,        \* the reading of datetime.utcnow()
    questions,  \* table questions
    sessions,   \* table test_sessions
    links,      \* table test_questions
    answers,    \* table answers
    results,    \* table results
    tasks,      \* the evaluate_submission coroutines in flight
    built,      \* for each row of test_sessions, the request that built it
    judged,     \* for each row of results, how each of its judge calls went
    httpError,  \* the last HTTPException a handler raised
    adapterCall, \* the last call of the judge adapter on its own
    helperCall, \* the last call of a parsing helper on its own
    cacheFiles, \* the files of CACHE_DIR, one per company
    cacheCall   \* the get_or_fetch_profile call in flight or last made

vars ==
    <<apiKey, now, questions, sessions, links, answers, results, tasks, built,
      judged, httpError, adapterCall, helperCall, cacheFiles, cacheCall>>

SessionIds == 1..Len(sessions)
QuestionIds == 1..Len(questions)
LinkIds == 1..Len(links)
TaskIds == 1..MaxTasks

\* ---------------------------------------------------------------- helpers
Range(s) == {s[i] : i \in 1..Len(s)}

Count(s, x) == Cardinality({i \in 1..Len(s) : s[i] = x})

Perms(n) == {p \in [1..n -> 1..n] : \A i, j \in 1..n : i # j => p[i] # p[j]}

\* db.query(TestQuestion).filter(TestQuestion.test_id == t).all()
LinksOf(t) == {l \in LinkIds : links[l].test_id = t}

\* faulty variant of OrderedLinks: the query orders by question_id
OrderedLinksByQuestion(t) ==
    LET ids == LinksOf(t)
        n == Cardinality(ids)
    IN  CHOOSE s \in [1..n -> ids] :
            /\ \A i, j \in 1..n : i # j => s[i] # s[j]
            /\ \A i, j \in 1..n :
                   i < j => links[s[i]].question_id <= links[s[j]].question_id

\* ... .order_by(TestQuestion.order_index).all(): the link ids of session t
\* in ascending order_index
OrderedLinks(t) ==
    LET ids == LinksOf(t)
        n == Cardinality(ids)
    IN  CHOOSE s \in [1..n -> ids] :
            /\ \A i, j \in 1..n : i # j => s[i] # s[j]
            /\ \A i, j \in 1..n :
                   i < j => links[s[i]].order_index <= links[s[j]].order_index

\* ----------------------------------------------------------- judge adapter
\* What one backend call (generate_content followed by _safe_json_loads)
\* yields: an exception (network error, timeout, unparsable text), a JSON
\* value that is no object, or a JSON object with or without each key.
RawLetters == {"A", " b", Missing}
RawBools == {"true", "false", Missing}
RawTexts == {"why", Missing}
RawDict(correct_answer, is_correct, explanation) ==
    [kind |-> "dict", correct_answer |-> correct_answer,
     is_correct |-> is_correct, explanation |-> explanation]

BackendError == [kind |-> "error"]
BackendNonDict == [kind |-> "nondict"]
BackendDicts ==
    {RawDict("A", "true", "why"), RawDict(" b", "false", "why"),
     RawDict(Missing, Missing, Missing)}
BackendResults == {BackendError, BackendNonDict} \cup BackendDicts

\* str(data.get("correct_answer", "")).strip().upper()
StrStripUpper(raw) ==
    CASE raw = Missing -> ""
      [] raw = " b" -> "B"
      [] OTHER -> raw

\* str(data.get("explanation", "")).strip()
StrStrip(raw) == IF raw = Missing THEN "" ELSE raw

\* bool(data.get("is_correct"))
PyBool(raw) == raw = "true"

Raised == [raised |-> TRUE]

Outcome(correct_answer, is_correct, explanation) ==
    [raised |-> FALSE, correct_answer |-> correct_answer,
     is_correct |-> is_correct, explanation |-> explanation]

\* the dict built at the end of _gemini_evaluate; data.get on a value that
\* is no object raises AttributeError outside both try blocks
FromData(data) ==
    IF data.kind = "nondict" THEN Raised
    ELSE Outcome(StrStripUpper(data.correct_answer),
                 PyBool(data.is_correct), StrStrip(data.explanation))

\* faulty variant of GeminiEvaluate: the placeholder after both backends failed
\* never counts as correct
GeminiEvaluateNeverCorrect(user_answer, primary, secondary) ==
    IF ~apiKey
    THEN Outcome("A", user_answer = "A",
                 "API key not configured. Using placeholder evaluation.")
    ELSE IF primary.kind # "error" THEN FromData(primary)
    ELSE IF secondary.kind # "error" THEN FromData(secondary)
    ELSE Outcome("A", FALSE, "Evaluation unavailable")

\* _gemini_evaluate(question, options, user_answer); primary and secondary
\* are what the call on _get_model() and on _fallback_model() would yield
GeminiEvaluate(user_answer, primary, secondary) ==
    IF ~apiKey
    THEN Outcome("A", user_answer = "A",
                 "API key not configured. Using placeholder evaluation.")
    ELSE IF primary.kind # "error" THEN FromData(primary)
    ELSE IF secondary.kind # "error" THEN FromData(secondary)
    ELSE Outcome("A", user_answer = "A", "Evaluation unavailable")

\* evaluate_answer(question, options, user_answer)
EvaluateAnswer(user_answer, primary, secondary) ==
    GeminiEvaluate(user_answer, primary, secondary)

\* the evaluator's own fallback (except Exception in evaluate_submission)
EvaluationFailed ==
    Outcome("A", FALSE, "Evaluation failed. Please check Gemini configuration.")

\* faulty variant of OrEmpty: None is handed on as it is
OrEmptyKeepsNone(user_answer) == user_answer

\* user_answer or ""
OrEmpty(user_answer) == IF user_answer = None THEN "" ELSE user_answer

\* faulty variant of Judge: the except branch grades like the adapter's placeholder
JudgePlaceholderOnRaise(user_answer, primary, secondary) ==
    LET e == EvaluateAnswer(OrEmpty(user_answer), primary, secondary)
    IN  IF e.raised
        THEN Outcome("A", OrEmpty(user_answer) = "A", "Evaluation unavailable")
        ELSE e

\* the try/except around run_in_threadpool(evaluate_answer, ...)
Judge(user_answer, primary, secondary) ==
    LET e == EvaluateAnswer(OrEmpty(user_answer), primary, secondary)
    IN  IF e.raised THEN EvaluationFailed ELSE e

\* the pairs of backend behaviours one judge call can meet: the secondary
\* backend is called only after the primary raised
BackendRuns ==
    {<<p, BackendError>> : p \in BackendResults \ {BackendError}}
        \cup {<<BackendError, s>> : s \in BackendResults}

\* how a judge call went, for the record of each evaluation (not program
\* state: the program keeps no trace of it)
JudgeKind(primary, secondary) ==
    IF ~apiKey THEN "unconfigured"
    ELSE IF EvaluateAnswer("", primary, secondary).raised THEN "raised"
    ELSE IF primary.kind = "error" /\ secondary.kind = "error" THEN "unavailable"
    ELSE "answered"

\* the record of one judge call of an evaluation: the question, the answer
\* the request gave for it, the answer handed to evaluate_answer, the
\* answers mapping of the request, how the call went and what the
\* evaluator took as its outcome
JudgeCall(question_id, user_answer, sent, answer_map, kind, evaluation) ==
    [question_id |-> question_id, user_answer |-> user_answer, sent |-> sent,
     answers |-> answer_map, kind |-> kind, evaluation |-> evaluation]

\* ------------------------------------------------------- question options
\* A string is a sequence of one-character strings; a dict is a set of
\* <<key, value>> pairs with distinct keys; a JSON value is tagged.
PyDict(items) == [type |-> "dict", items |-> items, elems |-> <<>>]
PyList(elems) == [type |-> "list", items |-> {}, elems |-> elems]
PyNone == [type |-> "none", items |-> {}, elems |-> <<>>]
EmptyDict == PyDict({})

\* the elements of a list: a str with its characters, or an int
PyStr(chars) == [type |-> "str", chars |-> chars]
PyInt == [type |-> "int", chars |-> <<>>]

Strip(str) ==
    LET idx == {i \in 1..Len(str) : str[i] # " "}
    IN  IF idx = {} THEN <<>>
        ELSE LET lo == CHOOSE i \in idx : \A j \in idx : i <= j
                 hi == CHOOSE i \in idx : \A j \in idx : j <= i
             IN  SubSeq(str, lo, hi)

DictPut(items, key, value) ==
    {kv \in items : kv[1] # key} \cup {<<key, value>>}

RECURSIVE ConvertList(_, _, _)
ConvertList(list, i, acc) ==
    IF i > Len(list) THEN acc
    ELSE LET option == list[i].chars
             at == {k \in 1..Len(option) : option[k] = ")"}
         IN  IF list[i].type # "str" \/ at = {}
             THEN ConvertList(list, i + 1, acc)
             ELSE LET cut == CHOOSE k \in at : \A j \in at : k <= j
                      key == Strip(SubSeq(option, 1, cut - 1))
                      value == Strip(SubSeq(option, cut + 1, Len(option)))
                  IN  ConvertList(list, i + 1, DictPut(acc, key, value))

\* faulty variant of ConvertOptionsToDict: a mapping is not recognised and
\* is converted like the list of its keys
ConvertOptionsToDictNoDictCheck(options) ==
    IF options.type = "none" THEN EmptyDict
    ELSE IF options.type = "dict"
    THEN PyDict({LET key == kv[1]
                      cut == CHOOSE k \in 1..Len(key) :
                                 /\ key[k] = ")"
                                 /\ \A j \in 1..(k - 1) : key[j] # ")"
                  IN  <<Strip(SubSeq(key, 1, cut - 1)),
                        Strip(SubSeq(key, cut + 1, Len(key)))>> :
                  kv \in {e \in options.items : ")" \in Range(e[1])}})
    ELSE IF options.elems = <<>> THEN EmptyDict
    ELSE PyDict(ConvertList(options.elems, 1, {}))

\* _convert_options_to_dict(options_list)
ConvertOptionsToDict(options) ==
    IF options.type = "none" THEN EmptyDict
    ELSE IF options.type = "dict"
    THEN IF options.items = {} THEN EmptyDict ELSE options
    ELSE IF options.elems = <<>> THEN EmptyDict
    ELSE PyDict(ConvertList(options.elems, 1, {}))

\* item.get("options", {}) of an uploaded question
UploadOptions == {EmptyDict}

\* q_data.get("options") of a generated question
CompanyOptions ==
    {PyList(<<PyStr(<<"A", ")", " ", "x">>), PyStr(<<"B", " ", ")", "y">>)>>)}

\* ---------------------------------------------------------------- rows
QuestionRow(number, text, options, source_name) ==
    [number |-> number, text |-> text, options |-> options,
     source_name |-> source_name]

\* TestSession(total_questions=..., duration_minutes=...)
SessionRow(total_questions, duration_minutes) ==
    [total_questions |-> total_questions, duration_minutes |-> duration_minutes,
     started_at |-> NULL, submitted_at |-> NULL]

\* TestQuestion(test_id=..., question_id=..., order_index=...)
LinkRow(test_id, question_id, order_index) ==
    [test_id |-> test_id, question_id |-> question_id, order_index |-> order_index]

\* Answer(test_id=..., question_id=..., selected_option=...)
AnswerRow(test_id, question_id, selected_option) ==
    [test_id |-> test_id, question_id |-> question_id,
     selected_option |-> selected_option]

\* the request that built a session: the handler, the session it was given
\* (retry) and the question ids it handed to the builder, in order
Built(by, from, input) == [by |-> by, from |-> from, input |-> input]

\* --------------------------------------------------------- session builder
\* faulty variant of BuildLinks: order_index counts from 1
BuildLinksOneBased(test_id, shuffled) ==
    [idx \in 1..Len(shuffled) |-> LinkRow(test_id, shuffled[idx], idx)]

\* the rows create_test_session adds for a session with id test_id, its
\* questions being taken in the order shuffle gives them
BuildLinks(test_id, shuffled) ==
    [idx \in 1..Len(shuffled) |-> LinkRow(test_id, shuffled[idx], idx - 1)]

\* faulty variant of CreateTestSession: the order is drawn with replacement
CreateTestSessionSampled(qs, perm) ==
    LET test_id == Len(sessions) + 1
        shuffled == [i \in 1..Len(qs) |-> qs[perm[1]]]
    IN  /\ sessions' = Append(sessions, SessionRow(Len(qs), NULL))
        /\ links' = links \o BuildLinks(test_id, shuffled)

\* create_test_session(db, questions): qs are the ids of the questions and
\* perm is the permutation random.shuffle applies
CreateTestSession(qs, perm) ==
    LET test_id == Len(sessions) + 1
        shuffled == [i \in 1..Len(qs) |-> qs[perm[i]]]
    IN  /\ sessions' = Append(sessions, SessionRow(Len(qs), NULL))
        /\ links' = links \o BuildLinks(test_id, shuffled)

\* ------------------------------------------------------------- evaluator
\* Exact fractions stand for Python floats: <<n, d>> in lowest terms.
RECURSIVE Gcd(_, _)
Gcd(a, b) == IF b = 0 THEN a ELSE Gcd(b, a % b)

Frac(n, d) == LET g == Gcd(n, d) IN <<n \div g, d \div g>>

FracMul(f, k) == Frac(f[1] * k, f[2])

\* faulty variant of Accuracy: the ratio is not scaled to a percentage
AccuracyAsRatio(correct_count, total) ==
    IF total # 0 THEN Frac(correct_count, total) ELSE <<0, 1>>

\* (correct_count / total) * 100 if total else 0.0
Accuracy(correct_count, total) ==
    IF total # 0 THEN FracMul(Frac(correct_count, total), 100) ELSE <<0, 1>>

\* the detail dict of one question
Detail(question_id, user_answer, evaluation) ==
    [question_id |-> question_id, user_answer |-> user_answer,
     correct_answer |-> evaluation.correct_answer,
     is_correct |-> evaluation.is_correct,
     explanation |-> evaluation.explanation]

\* Result(test_id=..., score=..., correct_count=..., ...)
ResultRow(test_id, correct_count, total, details) ==
    [test_id |-> test_id, score |-> correct_count,
     correct_count |-> correct_count, wrong_count |-> total - correct_count,
     accuracy |-> Accuracy(correct_count, total), details |-> details]

IdleTask == [pc |-> "idle"]

\* a coroutine suspended in the judge call of ordered[idx]
JudgingTask(test_id, answer_map, ordered, idx, details, correct_count, pending, log) ==
    [pc |-> "judging", test_id |-> test_id, answers |-> answer_map,
     ordered |-> ordered, idx |-> idx, details |-> details,
     correct_count |-> correct_count, pending |-> pending, log |-> log]

Running == {k \in TaskIds : tasks[k].pc # "idle"}

\* the Answer rows the running coroutines will have added when they commit
RECURSIVE SumLen(_)
SumLen(ks) ==
    IF ks = {} THEN 0
    ELSE LET k == CHOOSE j \in ks : TRUE
         IN  Len(tasks[k].ordered) + SumLen(ks \ {k})

InFlight == SumLen(Running)

\* faulty variant of Commit: submitting clears the session's started_at
CommitClearsStart(test_id, total, details, correct_count, pending, log) ==
    /\ results' = Append(results, ResultRow(test_id, correct_count, total, details))
    /\ sessions' = [sessions EXCEPT ![test_id].submitted_at = now,
                                    ![test_id].started_at = NULL]
    /\ answers' = answers \o pending
    /\ judged' = Append(judged, log)

\* faulty variant of Commit: the session's total_questions is overwritten
\* with the number of correct answers
CommitRecounts(test_id, total, details, correct_count, pending, log) ==
    /\ results' = Append(results, ResultRow(test_id, correct_count, total, details))
    /\ sessions' = [sessions EXCEPT ![test_id].submitted_at = now,
                                    ![test_id].total_questions = correct_count]
    /\ answers' = answers \o pending
    /\ judged' = Append(judged, log)

\* the tail of evaluate_submission, from total = len(ordered_questions) to
\* db.commit(): the Answer rows added in the loop, the Result row and the
\* session's submitted_at are written by the one commit
Commit(test_id, total, details, correct_count, pending, log) ==
    /\ results' = Append(results, ResultRow(test_id, correct_count, total, details))
    /\ sessions' = [sessions EXCEPT ![test_id].submitted_at = now]
    /\ answers' = answers \o pending
    /\ judged' = Append(judged, log)

\* the rows of answers stay within limit when session t is evaluated too
AnswersFit(t, limit) ==
    Len(answers) + InFlight + Cardinality(LinksOf(t)) <= limit

\* the questions of a session in ascending order_index (link.question)
OrderedQuestions(t) ==
    LET ordered_links == OrderedLinks(t)
    IN  [i \in 1..Len(ordered_links) |-> links[ordered_links[i]].question_id]

\* faulty variant of SubmitTest: the judge is called on the event loop, so
\* no request is served while an evaluation waits for a judge call
SubmitTestBlocking(k, t, answer_map) ==
    /\ Running = {}
    /\ tasks[k].pc = "idle"
    /\ \A j \in TaskIds : j < k => tasks[j].pc # "idle"
    /\ Len(results) + Cardinality(Running) < MaxResults
    /\ t \in SessionIds
    /\ LET ordered == OrderedQuestions(t)
       IN  IF Len(ordered) = 0
           THEN /\ Commit(t, 0, <<>>, 0, <<>>, <<>>)
                /\ UNCHANGED tasks
           ELSE /\ tasks' = [tasks EXCEPT ![k] =
                        JudgingTask(t, answer_map, ordered, 1, <<>>, 0, <<>>, <<>>)]
                /\ UNCHANGED <<sessions, answers, results, judged>>
    /\ UNCHANGED <<helperCall, httpError, adapterCall, cacheFiles, cacheCall, apiKey, now, questions,
                   links, built>>

\* POST /api/tests/{test_id}/submit up to the first judge call; a session
\* without links is evaluated without any await
SubmitTest(k, t, answer_map) ==
    /\ tasks[k].pc = "idle"
    /\ \A j \in TaskIds : j < k => tasks[j].pc # "idle"
    /\ Len(results) + Cardinality(Running) < MaxResults
    /\ t \in SessionIds
    /\ LET ordered == OrderedQuestions(t)
       IN  IF Len(ordered) = 0
           THEN /\ Commit(t, 0, <<>>, 0, <<>>, <<>>)
                /\ UNCHANGED tasks
           ELSE /\ tasks' = [tasks EXCEPT ![k] =
                        JudgingTask(t, answer_map, ordered, 1, <<>>, 0, <<>>, <<>>)]
                /\ UNCHANGED <<sessions, answers, results, judged>>
    /\ UNCHANGED <<helperCall, httpError, adapterCall, cacheFiles, cacheCall, apiKey, now, questions, links, built>>

\* faulty variant of JudgeReturn: details is one list shared by all
\* evaluations instead of a local of each coroutine
JudgeReturnSharedDetails(k, run) ==
    /\ tasks[k].pc = "judging"
    /\ LET task == tasks[k]
           question_id == task.ordered[task.idx]
           user_answer == task.answers[question_id]
           evaluation == Judge(user_answer, run[1], run[2])
           is_correct == evaluation.is_correct
           correct_count == task.correct_count + (IF is_correct THEN 1 ELSE 0)
           detail == Detail(question_id, user_answer, evaluation)
           details == Append(task.details, detail)
           pending == Append(task.pending, AnswerRow(task.test_id, question_id, user_answer))
           log == Append(task.log,
                         JudgeCall(question_id, user_answer,
                                   OrEmpty(user_answer), task.answers,
                                   JudgeKind(run[1], run[2]), evaluation))
           others == [j \in TaskIds |->
                         IF tasks[j].pc = "idle" THEN tasks[j]
                         ELSE [tasks[j] EXCEPT !.details = Append(@, detail)]]
       IN  IF task.idx = Len(task.ordered)
           THEN /\ Commit(task.test_id, Len(task.ordered), details, correct_count,
                          pending, log)
                /\ tasks' = [others EXCEPT ![k] = IdleTask]
           ELSE /\ tasks' = [others EXCEPT ![k] =
                        JudgingTask(task.test_id, task.answers, task.ordered,
                                    task.idx + 1, details, correct_count, pending, log)]
                /\ UNCHANGED <<sessions, answers, results, judged>>
    /\ UNCHANGED <<helperCall, httpError, adapterCall, cacheFiles, cacheCall, apiKey, now, questions,
                   links, built>>

\* the judge call of one question returns (or raises) and the loop body runs;
\* after the last question the coroutine runs on to the commit
JudgeReturn(k, run) ==
    /\ tasks[k].pc = "judging"
    /\ LET task == tasks[k]
           question_id == task.ordered[task.idx]
           user_answer == task.answers[question_id]
           evaluation == Judge(user_answer, run[1], run[2])
           is_correct == evaluation.is_correct
           correct_count == task.correct_count + (IF is_correct THEN 1 ELSE 0)
           details == Append(task.details, Detail(question_id, user_answer, evaluation))
           pending == Append(task.pending, AnswerRow(task.test_id, question_id, user_answer))
           log == Append(task.log,
                         JudgeCall(question_id, user_answer,
                                   OrEmpty(user_answer), task.answers,
                                   JudgeKind(run[1], run[2]), evaluation))
       IN  IF task.idx = Len(task.ordered)
           THEN /\ Commit(task.test_id, Len(task.ordered), details, correct_count,
                          pending, log)
                /\ tasks' = [tasks EXCEPT ![k] = IdleTask]
           ELSE /\ tasks' = [tasks EXCEPT ![k] =
                        JudgingTask(task.test_id, task.answers, task.ordered,
                                    task.idx + 1, details, correct_count, pending, log)]
                /\ UNCHANGED <<sessions, answers, results, judged>>
    /\ UNCHANGED <<helperCall, httpError, adapterCall, cacheFiles, cacheCall, apiKey, now, questions, links, built>>

\* the backend call task k waits for never answers: generate_content is
\* called without a timeout and run_in_threadpool is awaited without one,
\* so nothing in the program ends the wait
BackendStalls(k) ==
    /\ tasks[k].pc = "judging"
    /\ tasks' = [tasks EXCEPT ![k].pc = "stalled"]
    /\ UNCHANGED <<helperCall, httpError, adapterCall, cacheFiles, cacheCall, apiKey, now, questions,
                   sessions, links, answers, results, built, judged>>

\* faulty variant of Abort: the Answer rows added so far are committed
AbortFlushesAnswers(k) ==
    /\ tasks[k].pc \in {"judging", "stalled"}
    /\ tasks' = [tasks EXCEPT ![k].pc = "aborted"]
    /\ answers' = answers \o tasks[k].pending
    /\ UNCHANGED <<helperCall, httpError, adapterCall, cacheFiles, cacheCall, apiKey, now, questions,
                   sessions, links, results, built, judged>>

\* the evaluation of task k is aborted while it waits for a judge call (the
\* process crashes or the request is cancelled): its db session is never
\* committed, so the rows it added are dropped with it
Abort(k) ==
    /\ tasks[k].pc \in {"judging", "stalled"}
    /\ tasks' = [tasks EXCEPT ![k].pc = "aborted"]
    /\ UNCHANGED <<helperCall, httpError, adapterCall, cacheFiles, cacheCall, apiKey, now, questions,
                   sessions, links, answers, results, built, judged>>

\* ------------------------------------------------------- request handlers
SeqsUpTo(S, lo, hi) == UNION {[1..n -> S] : n \in lo..hi}

\* the ids of a set of rows in ascending order (the order a query without
\* ORDER BY reads a table whose rows are never deleted)
RECURSIVE Ascending(_)
Ascending(ids) ==
    IF ids = {} THEN <<>>
    ELSE LET lo == CHOOSE i \in ids : \A j \in ids : i <= j
         IN  <<lo>> \o Ascending(ids \ {lo})

\* the parsed questions of an uploaded PDF (never empty: 422 otherwise)
UploadItems == [text : Texts, options : UploadOptions]

\* POST /api/upload with a PDF that yields the questions items
UploadPdf(items, perm) ==
    /\ Len(sessions) < MaxSessions
    /\ Len(questions) + Len(items) <= MaxQuestions
    /\ LET rows == [i \in 1..Len(items) |->
                       QuestionRow(i, items[i].text, items[i].options, PdfName)]
           qs == [i \in 1..Len(items) |-> Len(questions) + i]
       IN  /\ questions' = questions \o rows
           /\ CreateTestSession(qs, perm)
           /\ built' = Append(built, Built("upload", NULL, qs))
    /\ UNCHANGED <<helperCall, httpError, adapterCall, cacheFiles, cacheCall, apiKey, now, answers, results, tasks, judged>>

\* faulty variant of StartTestSession: the duration is not stored
StartTestSessionNoDuration(t, duration_minutes) ==
    sessions' = [sessions EXCEPT ![t].started_at = now]

\* start_test_session(db, session, duration_minutes)
StartTestSession(t, duration_minutes) ==
    sessions' = [sessions EXCEPT ![t].duration_minutes = duration_minutes,
                                 ![t].started_at = now]

\* POST /api/tests/{test_id}/start
StartTest(t, duration_minutes) ==
    /\ t \in SessionIds
    /\ StartTestSession(t, duration_minutes)
    /\ UNCHANGED <<helperCall, httpError, adapterCall, cacheFiles, cacheCall, apiKey, now, questions, links, answers, results, tasks, built,
                   judged>>

\* faulty variant of RetryTest: the session itself is reset and handed out again
RetryTestInPlace(t, perm) ==
    /\ t \in SessionIds
    /\ sessions' = [sessions EXCEPT ![t].started_at = NULL,
                                    ![t].submitted_at = NULL]
    /\ UNCHANGED <<helperCall, httpError, adapterCall, cacheFiles, cacheCall, apiKey, now, questions, links, answers, results, tasks, built,
                   judged>>

\* POST /api/tests/{test_id}/retry
RetryTest(t, perm) ==
    /\ t \in SessionIds
    /\ Len(sessions) < MaxSessions
    /\ LET link_ids == Ascending(LinksOf(t))
           qs == [i \in 1..Len(link_ids) |-> links[link_ids[i]].question_id]
       IN  /\ CreateTestSession(qs, perm)
           /\ built' = Append(built, Built("retry", t, qs))
    /\ UNCHANGED <<helperCall, httpError, adapterCall, cacheFiles, cacheCall, apiKey, now, questions, answers, results, tasks, judged>>

\* the generated questions of an assessment (possibly none)
CompanyItems == [question : Texts, options : CompanyOptions]

\* db.query(Question).filter(text == ..., source_name == ...).first() on the
\* table qtable: the id of the first match, or NULL
Existing(qtable, text, source_name) ==
    LET match == {q \in 1..Len(qtable) :
                     qtable[q].text = text /\ qtable[q].source_name = source_name}
    IN  IF match = {} THEN NULL ELSE CHOOSE q \in match : \A r \in match : q <= r

\* step 3 of generate_company_test: the questions table and question_objects
\* after the items from position idx on are stored
RECURSIVE StoreQuestions(_, _, _, _, _)
StoreQuestions(qtable, question_objects, q_data, idx, company_name) ==
    IF idx > Len(q_data) THEN [table |-> qtable, objects |-> question_objects]
    ELSE LET existing == Existing(qtable, q_data[idx].question, company_name)
         IN  IF existing # NULL
             THEN StoreQuestions(
                      [qtable EXCEPT ![existing].options =
                          IF @.type = "list" THEN ConvertOptionsToDict(@) ELSE @],
                      Append(question_objects, existing), q_data, idx + 1,
                      company_name)
             ELSE StoreQuestions(
                      Append(qtable,
                             QuestionRow(idx, q_data[idx].question,
                                         ConvertOptionsToDict(q_data[idx].options),
                                         company_name)),
                      Append(question_objects, Len(qtable) + 1), q_data, idx + 1,
                      company_name)

\* faulty variant of GenerateCompanyTest: total_questions counts the Question
\* rows the request inserted instead of the questions it links
GenerateCompanyTestCountsNew(company_name, q_data) ==
    /\ Len(sessions) < MaxSessions
    /\ LET stored == StoreQuestions(questions, <<>>, q_data, 1, company_name)
           test_id == Len(sessions) + 1
       IN  /\ Len(stored.table) <= MaxQuestions
           /\ questions' = stored.table
           /\ sessions' = Append(sessions,
                                 SessionRow(Len(stored.table) - Len(questions),
                                            CompanyDuration))
           /\ links' = links \o [idx \in 1..Len(stored.objects) |->
                                    LinkRow(test_id, stored.objects[idx], idx - 1)]
           /\ built' = Append(built, Built("company", NULL, stored.objects))
    /\ UNCHANGED <<helperCall, httpError, adapterCall, cacheFiles, cacheCall, apiKey, now, answers,
                   results, tasks, judged>>

\* POST /api/generate-company-test once the assessment q_data is generated
GenerateCompanyTest(company_name, q_data) ==
    /\ Len(sessions) < MaxSessions
    /\ LET stored == StoreQuestions(questions, <<>>, q_data, 1, company_name)
           test_id == Len(sessions) + 1
       IN  /\ Len(stored.table) <= MaxQuestions
           /\ questions' = stored.table
           /\ sessions' = Append(sessions,
                                 SessionRow(Len(stored.objects), CompanyDuration))
           /\ links' = links \o [idx \in 1..Len(stored.objects) |->
                                    LinkRow(test_id, stored.objects[idx], idx - 1)]
           /\ built' = Append(built, Built("company", NULL, stored.objects))
    /\ UNCHANGED <<helperCall, httpError, adapterCall, cacheFiles, cacheCall, apiKey, now, answers, results, tasks, judged>>

\* time passes between two readings of datetime.utcnow()
Tick ==
    /\ now < MaxClock
    /\ now' = now + 1
    /\ UNCHANGED <<helperCall, httpError, adapterCall, cacheFiles, cacheCall, apiKey, questions, sessions, links, answers, results, tasks,
                   built, judged>>

\* ------------------------------------------------------- refused requests
\* HTTPException(status_code=...) raised by the handler of op, or the 422
\* of the request validation
HttpError(status, op) == [status |-> status, op |-> op]
NoError == HttpError(0, "none")

\* a request that is refused leaves the store and the coroutines alone
Refuse(status, op) ==
    /\ httpError' = HttpError(status, op)
    /\ UNCHANGED <<helperCall, adapterCall, cacheFiles, cacheCall, apiKey, now, questions, sessions,
                   links, answers, results, tasks, built, judged>>

\* faulty variant of ValidDuration: the upper limit is not checked
ValidDurationNoUpper(duration_minutes) == duration_minutes >= MinDuration

\* StartTestRequest: duration_minutes: int = Field(..., ge=1, le=240)
ValidDuration(duration_minutes) ==
    duration_minutes >= MinDuration /\ duration_minutes <= MaxDuration

\* the duration_minutes and the test_id a client may send
RequestedDurations == {MinDuration - 1, MinDuration, MaxDuration, MaxDuration + 1}
RequestedIds == 1..(MaxSessions + 1)

\* POST /api/tests/{test_id}/start with any body and any test_id: the body
\* is validated before the handler runs
StartRequest(t, duration_minutes) ==
    IF ~ValidDuration(duration_minutes) THEN Refuse(422, "start")
    ELSE IF t \notin SessionIds THEN Refuse(404, "start")
    ELSE StartTest(t, duration_minutes)

\* faulty variant of RetryRequest: the session is not looked up, and the
\* builder is called with the (empty) links of the unknown test_id
RetryRequestNoCheck(t, perm) ==
    IF t \notin SessionIds
    THEN /\ Len(sessions) < MaxSessions
         /\ CreateTestSession(<<>>, perm)
         /\ built' = Append(built, Built("retry", t, <<>>))
         /\ UNCHANGED <<helperCall, httpError, adapterCall, cacheFiles, cacheCall, apiKey, now, questions, answers,
                        results, tasks, judged>>
    ELSE RetryTest(t, perm)

\* POST /api/tests/{test_id}/retry with any test_id
RetryRequest(t, perm) ==
    IF t \notin SessionIds THEN Refuse(404, "retry") ELSE RetryTest(t, perm)

\* POST /api/tests/{test_id}/submit with any test_id
SubmitRequest(k, t, answer_map) ==
    IF t \notin SessionIds THEN Refuse(404, "submit")
    ELSE SubmitTest(k, t, answer_map)

\* what the research and generation backends of one request do: the
\* profile cannot be fetched, the generator fails in one of its ways, or an
\* assessment with the questions q_data is generated
ProfileFailure == [kind |-> "no profile", questions |-> <<>>]
GeneratorFailures ==
    {[kind |-> kind, questions |-> <<>>] :
         kind \in {"unconfigured", "unreachable", "empty", "unparsable",
                   "no questions"}}
Assessment(q_data) == [kind |-> "assessment", questions |-> q_data]
CompanyBackends ==
    {ProfileFailure} \cup GeneratorFailures
        \cup {Assessment(q_data) : q_data \in SeqsUpTo(CompanyItems, 0, MaxBatch)}

\* generate_company_assessment(profile): raises on every failure
GenerateCompanyAssessment(backend) ==
    IF backend.kind = "assessment"
    THEN [raised |-> FALSE, questions |-> backend.questions]
    ELSE [raised |-> TRUE, questions |-> <<>>]

\* request.company, stripped
RequestedCompanies == Companies \cup {""}

\* faulty variant of GenerateCompanyRequest: a failed generation falls back
\* to a stock assessment
GenerateCompanyRequestFallback(company_name, backend) ==
    IF company_name = "" THEN Refuse(400, "company")
    ELSE IF backend.kind = "no profile" THEN Refuse(500, "company")
    ELSE LET assessment == GenerateCompanyAssessment(backend)
             stock == <<CHOOSE item \in CompanyItems : TRUE>>
         IN  IF assessment.raised
             THEN GenerateCompanyTest(company_name, stock)
             ELSE GenerateCompanyTest(company_name, assessment.questions)

\* POST /api/generate-company-test: steps 1 and 2 and the except clauses
\* around the steps GenerateCompanyTest models
GenerateCompanyRequest(company_name, backend) ==
    IF company_name = "" THEN Refuse(400, "company")
    ELSE IF backend.kind = "no profile" THEN Refuse(500, "company")
    ELSE LET assessment == GenerateCompanyAssessment(backend)
         IN  IF assessment.raised THEN Refuse(500, "company")
             ELSE GenerateCompanyTest(company_name, assessment.questions)

\* ------------------------------------------------- the adapter on its own
\* the backends _gemini_evaluate calls generate_content on, in order
GeminiCalls(primary, secondary) ==
    IF ~apiKey THEN <<>>
    ELSE IF primary.kind # "error" THEN <<"primary">>
    ELSE <<"primary", "secondary">>

\* every JSON object a backend may answer with
AdapterDicts ==
    [kind : {"dict"}, correct_answer : RawLetters, is_correct : RawBools,
     explanation : RawTexts]
AdapterResults == {BackendError, BackendNonDict} \cup AdapterDicts

\* the user_answer strings the evaluator hands to the adapter
AdapterAnswers == {OrEmpty(user_answer) : user_answer \in UserAnswers}

NotCalled == [invoked |-> FALSE]

\* evaluate_answer(question, options, user_answer) called while the primary
\* backend would yield primary and the secondary backend secondary
CallAdapter(user_answer, primary, secondary) ==
    /\ adapterCall' =
           [invoked |-> TRUE, user_answer |-> user_answer, primary |-> primary,
            secondary |-> secondary, calls |-> GeminiCalls(primary, secondary),
            outcome |-> EvaluateAnswer(user_answer, primary, secondary)]
    /\ UNCHANGED <<helperCall, httpError, cacheFiles, cacheCall, apiKey, now, questions, sessions,
                   links, answers, results, tasks, built, judged>>

\* ------------------------------------------------- the helpers on their own
NoCall == [fn |-> "none"]

\* the values q_data.get("options") and existing.options may hold: a list
\* of strings and other elements, a mapping, or None
OptionChars == {"A", ")", " "}
OptionStrings == UNION {[1..n -> OptionChars] : n \in 0..MaxOption}
OptionElements == {PyStr(chars) : chars \in OptionStrings} \cup {PyInt}
OptionLists == {PyList(elems) : elems \in SeqsUpTo(OptionElements, 0, MaxList)}
OptionDicts ==
    {PyDict({<<<<key>>, value[key]>> : key \in keys}) :
         keys \in SUBSET Letters, value \in [Letters -> {<<>>, <<"A">>}]}
OptionValues == OptionLists \cup OptionDicts \cup {PyNone}

\* _convert_options_to_dict(options), and once more on what it returned
ConvertOptions(options) ==
    /\ helperCall' =
           [fn |-> "convert", input |-> options,
            once |-> ConvertOptionsToDict(options),
            twice |-> ConvertOptionsToDict(ConvertOptionsToDict(options))]
    /\ UNCHANGED <<httpError, adapterCall, cacheFiles, cacheCall, apiKey, now, questions, sessions,
                   links, answers, results, tasks, built, judged>>

\* A model response is a sequence of tokens: "{" and "}", "k" for a key
\* with its colon, "1" for a scalar, " " for white space, "f" for the fence
\* of three backquotes and "j" for the word json (a fence tag when it
\* follows a fence, prose otherwise).
ResponseTokens == {"{", "}", "k", "1", " ", "f", "j"}

Responses == UNION {[1..n -> ResponseTokens] : n \in 0..MaxText}

\* what json.loads accepts once white space is dropped: a scalar, the
\* empty object, or an object with one key and a value
RECURSIVE IsJsonValue(_)
IsJsonValue(s) ==
    \/ s = <<"1">>
    \/ s = <<"{", "}">>
    \/ /\ Len(s) >= 4
       /\ s[1] = "{"
       /\ s[2] = "k"
       /\ s[Len(s)] = "}"
       /\ IsJsonValue(SubSeq(s, 3, Len(s) - 1))

NotSpace(c) == c # " "

ParseRaised == [ok |-> FALSE, value |-> <<>>]

\* json.loads(text): the value, or JSONDecodeError
JsonLoads(text) ==
    LET value == SelectSeq(text, NotSpace)
    IN  IF IsJsonValue(value) THEN [ok |-> TRUE, value |-> value]
        ELSE ParseRaised

\* str.replace(old, "") for a two-token old: one pass from the left
RECURSIVE RemovePair(_, _)
RemovePair(text, old) ==
    IF Len(text) < 2 THEN text
    ELSE IF SubSeq(text, 1, 2) = old
         THEN RemovePair(SubSeq(text, 3, Len(text)), old)
         ELSE <<text[1]>> \o RemovePair(Tail(text), old)

NotFence(c) == c # "f"

\* str.find(c) and str.rfind(c), 1-based, 0 for Python's -1
Find(text, c) ==
    IF \E i \in 1..Len(text) : text[i] = c
    THEN CHOOSE i \in 1..Len(text) :
             text[i] = c /\ \A j \in 1..(i - 1) : text[j] # c
    ELSE 0

RFind(text, c) ==
    IF \E i \in 1..Len(text) : text[i] = c
    THEN CHOOSE i \in 1..Len(text) :
             text[i] = c /\ \A j \in (i + 1)..Len(text) : text[j] # c
    ELSE 0

\* text.strip(), the two replace calls (fence with tag, then fence) and
\* strip() again
Cleaned(text) ==
    Strip(SelectSeq(RemovePair(Strip(text), <<"f", "j">>), NotFence))

\* the outcome of one call with the path that gave it
Parsed(by, outcome) == [ok |-> outcome.ok, value |-> outcome.value, by |-> by]

\* faulty variant of SafeJsonLoads: JSONDecodeError is raised again at once
SafeJsonLoadsNoScan(text) ==
    LET cleaned == Cleaned(text)
        direct == JsonLoads(cleaned)
    IN  IF direct.ok THEN Parsed("direct", direct)
        ELSE Parsed("raise", ParseRaised)

\* _safe_json_loads(text)
SafeJsonLoads(text) ==
    LET cleaned == Cleaned(text)
        direct == JsonLoads(cleaned)
        start == Find(cleaned, "{")
        end == RFind(cleaned, "}")
    IN  IF direct.ok THEN Parsed("direct", direct)
        ELSE IF start # 0 /\ end # 0
             THEN Parsed("scan", JsonLoads(SubSeq(cleaned, start, end)))
             ELSE Parsed("raise", ParseRaised)

\* one call of _safe_json_loads on a response text
ParseResponse(text) ==
    /\ helperCall' = [fn |-> "parse", input |-> text,
                      result |-> SafeJsonLoads(text)]
    /\ UNCHANGED <<httpError, adapterCall, cacheFiles, cacheCall, apiKey, now, questions, sessions,
                   links, answers, results, tasks, built, judged>>

\* --------------------------------------------------- company profile cache
\* the company names of the requests; "Acme" and "acme" share a cache file
CachedCompanies == {"acme", "Acme", "globex"}

\* _get_cache_file_path: the name is lowered and every character that is
\* not alphanumeric becomes "_"
SafeName(company_name) == IF company_name = "Acme" THEN "acme" ELSE company_name

CacheFileNames == {SafeName(company_name) : company_name \in CachedCompanies}

\* A profile is a dict: data tells what fetch_func put into it ("empty" for
\* {}), stamped whether cached_at and cache_version were added. NoFile is
\* the absent file and, as a value, None.
Profile(data, stamped) == [none |-> FALSE, data |-> data, stamped |-> stamped]
NoFile == [none |-> TRUE, data |-> "", stamped |-> FALSE]
ProfileData == {"empty", "p1", "p2"}

\* what awaiting fetch_func gives: an exception or a profile
FetchRaised == [raised |-> TRUE, profile |-> NoFile]
FetchOutcomes ==
    {FetchRaised}
        \cup {[raised |-> FALSE, profile |-> Profile(data, FALSE)] :
                  data \in ProfileData}

\* if profile: (None and {} are falsy)
Truthy(profile) ==
    ~profile.none /\ (profile.data # "empty" \/ profile.stamped)

\* get_company_profile(company_name): None when the file is missing or
\* cannot be read (read_ok is FALSE when open or json.load fails)
GetCompanyProfile(company_name, read_ok) ==
    LET file == cacheFiles[SafeName(company_name)]
    IN  IF file.none \/ ~read_ok THEN NoFile ELSE file

\* profile["cached_at"] = ...; profile["cache_version"] = "1.0"
Stamped(profile) == [profile EXCEPT !.stamped = TRUE]

\* the files after save_company_profile(company_name, profile); save_ok is
\* FALSE when open or json.dump raises IOError, which the function turns
\* into the return value False
SaveCompanyProfile(company_name, profile, save_ok) ==
    IF save_ok
    THEN [cacheFiles EXCEPT ![SafeName(company_name)] = Stamped(profile)]
    ELSE cacheFiles

\* the record of a get_or_fetch_profile call: where it stands, how often it
\* has invoked fetch_func, what it returned, the number of calls made so
\* far and the files for which a call has returned since their last delete
CacheCall(pc, company_name, fetches, value, calls, done) ==
    [pc |-> pc, company |-> company_name, fetches |-> fetches, value |-> value,
     calls |-> calls, done |-> done]

NoCacheCall == CacheCall("idle", "", 0, NoFile, 0, {})

\* get_or_fetch_profile(company_name, fetch_func) up to its await: a truthy
\* cached profile is returned, otherwise fetch_func is invoked (one call
\* is followed at a time)
GetOrFetchProfile(company_name, read_ok) ==
    /\ cacheCall.pc # "fetching"
    /\ LET profile == GetCompanyProfile(company_name, read_ok)
       IN  cacheCall' =
               IF Truthy(profile)
               THEN CacheCall("returned", company_name, 0, profile,
                              cacheCall.calls + 1, cacheCall.done)
               ELSE CacheCall("fetching", company_name, 1, NoFile,
                              cacheCall.calls + 1, cacheCall.done)
    /\ UNCHANGED cacheFiles
    /\ UNCHANGED <<apiKey, now, questions, sessions, links, answers, results,
                   tasks, built, judged, httpError, adapterCall, helperCall>>

\* the await of fetch_func ends: its exception leaves the coroutine, or its
\* profile is saved and returned
FetchReturns(outcome, save_ok) ==
    /\ cacheCall.pc = "fetching"
    /\ IF outcome.raised
       THEN /\ cacheCall' = [cacheCall EXCEPT !.pc = "raised"]
            /\ UNCHANGED cacheFiles
       ELSE /\ cacheFiles' =
                   SaveCompanyProfile(cacheCall.company, outcome.profile, save_ok)
            /\ cacheCall' =
                   [cacheCall EXCEPT
                       !.pc = "returned",
                       !.value = Stamped(outcome.profile),
                       !.done = @ \cup {SafeName(cacheCall.company)}]
    /\ UNCHANGED <<apiKey, now, questions, sessions, links, answers, results,
                   tasks, built, judged, httpError, adapterCall, helperCall>>

\* delete_company_profile(company_name)
DeleteCompanyProfile(company_name) ==
    /\ ~cacheFiles[SafeName(company_name)].none
    /\ cacheFiles' = [cacheFiles EXCEPT ![SafeName(company_name)] = NoFile]
    /\ cacheCall' = [cacheCall EXCEPT !.done = @ \ {SafeName(company_name)}]
    /\ UNCHANGED <<apiKey, now, questions, sessions, links, answers, results,
                   tasks, built, judged, httpError, adapterCall, helperCall>>

\* ------------------------------------------------------------------ system
Init ==
    /\ apiKey \in BOOLEAN
    /\ now = 1
    /\ questions = <<>>
    /\ sessions = <<>>
    /\ links = <<>>
    /\ answers = <<>>
    /\ results = <<>>
    /\ tasks = [k \in TaskIds |-> IdleTask]
    /\ built = <<>>
    /\ judged = <<>>
    /\ httpError = NoError
    /\ adapterCall = NotCalled
    /\ helperCall = NoCall
    /\ cacheFiles = [name \in CacheFileNames |-> NoFile]
    /\ cacheCall = NoCacheCall

\* Every handler, with the judge answering (rightly or wrongly) whenever it
\* is configured and every candidate answering "A".
LifecycleRuns ==
    {<<RawDict("A", "true", "why"), BackendError>>,
     <<RawDict(" b", "false", "why"), BackendError>>}
LifecycleAnswers == {"A"}

Next ==
    \/ \E items \in SeqsUpTo(UploadItems, 1, MaxBatch) :
           \E perm \in Perms(Len(items)) : UploadPdf(items, perm)
    \/ \E company_name \in Companies :
           \E q_data \in SeqsUpTo(CompanyItems, 0, MaxBatch) :
               GenerateCompanyTest(company_name, q_data)
    \/ \E t \in SessionIds : \E duration_minutes \in Durations :
           StartTest(t, duration_minutes)
    \/ \E t \in SessionIds : \E perm \in Perms(Cardinality(LinksOf(t))) :
           RetryTest(t, perm)
    \/ \E k \in TaskIds : \E t \in SessionIds :
           \E answer_map \in [QuestionIds -> LifecycleAnswers] :
               AnswersFit(t, MaxAnswers) /\ SubmitTest(k, t, answer_map)
    \/ \E k \in TaskIds : \E run \in LifecycleRuns : JudgeReturn(k, run)
    \/ Tick

Spec == Init /\ [][Next]_vars

\* The evaluation of the sessions of a store that is built and then left
\* alone, under every behaviour of the judge backends and every answer map.
NextEval ==
    \/ \E items \in SeqsUpTo(UploadItems, 1, MaxBatch) :
           \E perm \in Perms(Len(items)) :
               Running = {} /\ results = <<>> /\ UploadPdf(items, perm)
    \/ \E company_name \in Companies :
           \E q_data \in SeqsUpTo(CompanyItems, 0, MaxBatch) :
               Running = {} /\ results = <<>>
                   /\ GenerateCompanyTest(company_name, q_data)
    \/ \E k \in TaskIds : \E t \in SessionIds :
           \E answer_map \in [QuestionIds -> UserAnswers] :
               AnswersFit(t, MaxAnswers) /\ SubmitTest(k, t, answer_map)
    \/ \E k \in TaskIds : \E run \in BackendRuns : JudgeReturn(k, run)

SpecEval == Init /\ [][NextEval]_vars

\* Every request a client may send, the refused ones included, with the
\* judge and the candidates of Spec and the clock standing still.
NextErrors ==
    \/ \E items \in SeqsUpTo(UploadItems, 1, MaxBatch) :
           \E perm \in Perms(Len(items)) : UploadPdf(items, perm)
    \/ \E company_name \in RequestedCompanies :
           \E backend \in CompanyBackends :
               GenerateCompanyRequest(company_name, backend)
    \/ \E t \in RequestedIds : \E duration_minutes \in RequestedDurations :
           StartRequest(t, duration_minutes)
    \/ \E t \in RequestedIds : \E perm \in Perms(Cardinality(LinksOf(t))) :
           RetryRequest(t, perm)
    \/ \E k \in TaskIds : \E t \in RequestedIds :
           \E answer_map \in [QuestionIds -> LifecycleAnswers] :
               AnswersFit(t, MaxAnswers) /\ SubmitRequest(k, t, answer_map)
    \/ \E k \in TaskIds : \E run \in LifecycleRuns : JudgeReturn(k, run)

SpecErrors == Init /\ [][NextErrors]_vars

\* The judge adapter called on its own, for every answer and every pair of
\* backend behaviours.
NextJudge ==
    \E user_answer \in AdapterAnswers : \E primary, secondary \in AdapterResults :
        CallAdapter(user_answer, primary, secondary)

SpecJudge == Init /\ [][NextJudge]_vars

\* Evaluations running side by side, with judge calls that may never be
\* answered and evaluations that may be aborted; the judge and the
\* candidates are those of Spec and the clock stands still.
MaxAnswersSched == MaxTasks * MaxQuestions

NextSched ==
    \/ \E items \in SeqsUpTo(UploadItems, 1, MaxBatch) :
           \E perm \in Perms(Len(items)) : UploadPdf(items, perm)
    \/ \E t \in SessionIds : \E duration_minutes \in Durations :
           StartTest(t, duration_minutes)
    \/ \E t \in SessionIds : \E perm \in Perms(Cardinality(LinksOf(t))) :
           RetryTest(t, perm)
    \/ \E k \in TaskIds : \E t \in SessionIds :
           \E answer_map \in [QuestionIds -> LifecycleAnswers] :
               AnswersFit(t, MaxAnswersSched) /\ SubmitTest(k, t, answer_map)
    \/ \E k \in TaskIds : \E run \in LifecycleRuns : JudgeReturn(k, run)
    \/ \E k \in TaskIds : BackendStalls(k)
    \/ \E k \in TaskIds : Abort(k)

SpecSched == Init /\ [][NextSched]_vars

\* The options conversion called on its own, for every options value.
NextOptions == \E options \in OptionValues : ConvertOptions(options)

SpecOptions == Init /\ [][NextOptions]_vars

\* one response per behaviour
NextParse ==
    /\ helperCall = NoCall
    /\ \E text \in Responses : ParseResponse(text)

SpecParse == Init /\ [][NextParse]_vars

\* get_or_fetch_profile and delete_company_profile on their own
NextCache ==
    \/ \E company_name \in CachedCompanies : \E read_ok \in BOOLEAN :
           cacheCall.calls < MaxCalls /\ GetOrFetchProfile(company_name, read_ok)
    \/ \E outcome \in FetchOutcomes : \E save_ok \in BOOLEAN :
           FetchReturns(outcome, save_ok)
    \/ \E company_name \in CachedCompanies : DeleteCompanyProfile(company_name)

SpecCache == Init /\ [][NextCache]_vars

\* ================================================================ claims
ResultIds == 1..Len(results)

ResultsOf(t) == {r \in ResultIds : results[r].test_id = t}

LinkedQuestions(t) == {links[l].question_id : l \in LinksOf(t)}

\* C1 (as claimed): once a start call has set started_at of a session, no
\* later step (in particular no later start call, with the same or another
\* duration_minutes) changes it.
C1_StartedAtKept ==
    [][\A t \in SessionIds :
           sessions[t].started_at # NULL
               => sessions'[t].started_at = sessions[t].started_at]_vars

\* C2 (as claimed): in every reachable state every session has at most one
\* row of results, also after it was submitted twice or more.
C2_AtMostOneResult ==
    \A t \in SessionIds : Cardinality(ResultsOf(t)) <= 1

\* C3: every Result of a session with N links has N details, and details[i]
\* (0-based) carries the question_id of the session's link with
\* order_index = i.
C3_DetailsFollowOrderIndex ==
    \A r \in ResultIds :
        LET t == results[r].test_id
            details == results[r].details
        IN  /\ Len(details) = Cardinality(LinksOf(t))
            /\ \A i \in 0..(Len(details) - 1) :
                   /\ \E l \in LinksOf(t) : links[l].order_index = i
                   /\ \A l \in LinksOf(t) :
                          links[l].order_index = i
                              => details[i + 1].question_id = links[l].question_id

\* a Result of two questions whose session presents them in the reverse of
\* the order they were uploaded in
C3_Witness ==
    \E r \in ResultIds :
        LET t == results[r].test_id
        IN  /\ Len(results[r].details) = 2
            /\ results[r].details[1].question_id > results[r].details[2].question_id
            /\ built[t].by = "upload"

\* C4: every evaluation ends in a Result that covers all linked questions,
\* whichever judge calls raised; a question whose judge call raised has
\* is_correct = false and a non-empty explanation, in the Result and in the
\* details of an evaluation still under way.
C4_FallbackTotality ==
    /\ \A r \in ResultIds :
           /\ Len(results[r].details) = Cardinality(LinksOf(results[r].test_id))
           /\ Len(judged[r]) = Len(results[r].details)
           /\ \A i \in 1..Len(judged[r]) :
                  judged[r][i].kind = "raised"
                      => /\ results[r].details[i].is_correct = FALSE
                         /\ results[r].details[i].explanation # ""
    /\ \A k \in Running :
           /\ Len(tasks[k].log) = Len(tasks[k].details)
           /\ \A i \in 1..Len(tasks[k].log) :
                  tasks[k].log[i].kind = "raised"
                      => /\ tasks[k].details[i].is_correct = FALSE
                         /\ tasks[k].details[i].explanation # ""

\* a Result of two questions: the judge call of the first raised although
\* the candidate chose "A", the call of the second was answered
C4_Witness ==
    \E r \in ResultIds :
        /\ Len(judged[r]) = 2
        /\ judged[r][1].kind = "raised"
        /\ results[r].details[1].user_answer = "A"
        /\ judged[r][2].kind = "answered"
        /\ results[r].details[2].is_correct

\* C5 (as claimed): a question graded while the judge backend was
\* unavailable or returned unusable content is recorded with
\* correct_answer "A" and is_correct = false, whatever was submitted.
C5_FailureIsNeverCorrect ==
    \A r \in ResultIds : \A i \in 1..Len(judged[r]) :
        judged[r][i].kind \in {"unavailable", "raised"}
            => /\ results[r].details[i].correct_answer = "A"
               /\ results[r].details[i].is_correct = FALSE

\* C5 (amended): such a question is recorded with correct_answer "A"; it
\* has is_correct = false when the judge call raised to the evaluator, and
\* is_correct = (submitted option = "A") when both backends failed inside
\* the adapter.
C5_FailureOutcome ==
    \A r \in ResultIds : \A i \in 1..Len(judged[r]) :
        LET detail == results[r].details[i]
        IN  /\ judged[r][i].kind = "raised"
                => detail.correct_answer = "A" /\ detail.is_correct = FALSE
            /\ judged[r][i].kind = "unavailable"
                => /\ detail.correct_answer = "A"
                   /\ detail.is_correct = (detail.user_answer = "A")
                   /\ detail.explanation = "Evaluation unavailable"

\* both backends failed for a question the candidate answered "A"
C5_Witness ==
    \E r \in ResultIds : \E i \in 1..Len(judged[r]) :
        /\ judged[r][i].kind = "unavailable"
        /\ results[r].details[i].user_answer = "A"
        /\ results[r].details[i].is_correct

\* C6: in every Result correct_count + wrong_count = len(details) = the
\* number of graded questions, correct_count counts the details with
\* is_correct, and accuracy is 100 * correct_count / total, or 0 for total 0.
C6_SummaryConsistent ==
    \A r \in ResultIds :
        LET row == results[r]
            total == Cardinality(LinksOf(row.test_id))
        IN  /\ row.correct_count + row.wrong_count = Len(row.details)
            /\ Len(row.details) = total
            /\ row.correct_count =
                   Cardinality({i \in 1..Len(row.details) : row.details[i].is_correct})
            /\ row.accuracy =
                   IF total > 0 THEN Frac(100 * row.correct_count, total) ELSE <<0, 1>>
            /\ total = 0 => row.details = <<>>

\* one Result with one right and one wrong answer (accuracy 50) beside the
\* Result of a session without questions (accuracy 0)
C6_Witness ==
    /\ \E r \in ResultIds :
           /\ results[r].correct_count = 1
           /\ results[r].wrong_count = 1
           /\ results[r].accuracy = <<50, 1>>
    /\ \E r \in ResultIds :
           results[r].details = <<>> /\ results[r].accuracy = <<0, 1>>

\* C7: a retry of session t adds one session whose id is not the id of any
\* existing session and whose linked question ids are those of t; it leaves
\* every existing session row, link row, Answer row and Result row as it was.
C7_RetryIndependence ==
    [][\A t \in SessionIds : \A perm \in Perms(Cardinality(LinksOf(t))) :
           RetryTest(t, perm)
               => LET new == Len(sessions) + 1
                  IN  /\ Len(sessions') = new
                      /\ {links'[l].question_id :
                             l \in {m \in 1..Len(links') : links'[m].test_id = new}}
                             = LinkedQuestions(t)
                      /\ \A s \in SessionIds : sessions'[s] = sessions[s]
                      /\ \A l \in LinkIds : links'[l] = links[l]
                      /\ \A l \in (Len(links) + 1)..Len(links') :
                             links'[l].test_id = new
                      /\ results' = results
                      /\ answers' = answers]_vars

\* a started and submitted session of two questions was retried, and the
\* new session presents the questions in another order
C7_Witness ==
    \E t \in SessionIds :
        /\ built[t].by = "retry"
        /\ sessions[built[t].from].started_at # NULL
        /\ ResultsOf(built[t].from) # {}
        /\ Cardinality(LinkedQuestions(t)) = 2
        /\ OrderedQuestions(t) # OrderedQuestions(built[t].from)

\* C8: in every reachable state the order_index values of the links of each
\* session are exactly 0..N-1, N being the number of its links, whichever
\* handler built the session.
C8_DenseOrderIndex ==
    \A t \in SessionIds :
        LET n == Cardinality(LinksOf(t))
        IN  /\ {links[l].order_index : l \in LinksOf(t)} = 0..(n - 1)
            /\ \A l, m \in LinksOf(t) :
                   l # m => links[l].order_index # links[m].order_index

\* a generated session of two links and its retry
C8_Witness ==
    \E s, t \in SessionIds :
        /\ built[s].by = "company"
        /\ built[t].by = "retry"
        /\ built[t].from = s
        /\ Cardinality(LinksOf(s)) = 2
        /\ Cardinality(LinksOf(t)) = 2

\* C9: a session built by create_test_session from the question sequence
\* input has total_questions = len(input) and links every question as often
\* as it occurs in input (once, when input has no repetition) and no other
\* question; for the empty input it has total_questions = 0 and no links.
C9_BuildIsPermutation ==
    \A t \in SessionIds :
        built[t].by \in {"upload", "retry"}
            => LET input == built[t].input
               IN  /\ sessions[t].total_questions = Len(input)
                   /\ Cardinality(LinksOf(t)) = Len(input)
                   /\ \A q \in QuestionIds \cup Range(input) :
                          Cardinality({l \in LinksOf(t) : links[l].question_id = q})
                              = Count(input, q)

\* an upload of two questions is presented in the reverse order
C9_Witness ==
    \E t \in SessionIds :
        /\ built[t].by = "upload"
        /\ Len(built[t].input) = 2
        /\ sessions[t].total_questions = 2
        /\ OrderedQuestions(t) # built[t].input

\* C10 (as claimed): submitted_at of a session is unset until an evaluation
\* of the session commits its Result, and once set it is never changed.
C10_SubmittedAtSetOnce ==
    [][\A t \in SessionIds :
           /\ sessions[t].submitted_at # NULL
                  => sessions'[t].submitted_at = sessions[t].submitted_at
           /\ (sessions[t].submitted_at = NULL /\ sessions'[t].submitted_at # NULL)
                  => /\ ResultsOf(t) = {}
                     /\ Len(results') = Len(results) + 1
                     /\ results'[Len(results')].test_id = t]_vars

\* C11 (as claimed): in every reachable state a session whose submitted_at
\* is set, or that has a Result, also has started_at set: a session that was
\* never started cannot be submitted.
C11_SubmittedOnlyIfStarted ==
    \A t \in SessionIds :
        (sessions[t].submitted_at # NULL \/ ResultsOf(t) # {})
            => sessions[t].started_at # NULL

\* the option letters a question declares, as strings
DeclaredLetters(q) ==
    {kv[1][1] : kv \in {p \in questions[q].options.items : Len(p[1]) = 1}}

\* C13 (as claimed): in every outcome the Judge Adapter returned (from a
\* backend or as its placeholder), is_correct is true exactly when the
\* candidate's user_answer equals the returned correct_answer (an absent
\* answer equals no correct_answer).
C13_IsCorrectConsistent ==
    \A r \in ResultIds : \A i \in 1..Len(judged[r]) :
        judged[r][i].kind # "raised"
            => (results[r].details[i].is_correct
                    <=> results[r].details[i].user_answer
                            = results[r].details[i].correct_answer)

\* C14 (as claimed): the correct_answer recorded for a question is one of
\* the option letters its options mapping declares, also when that mapping
\* is empty.
C14_CorrectAnswerDeclared ==
    \A r \in ResultIds : \A i \in 1..Len(results[r].details) :
        results[r].details[i].correct_answer
            \in DeclaredLetters(results[r].details[i].question_id)

\* C16 (as claimed): no two Answer rows have the same test_id and
\* question_id, also after repeated submissions, and a session that was
\* evaluated has one Answer row for each linked question.
C16_OneAnswerPerQuestion ==
    /\ \A a, b \in 1..Len(answers) :
           (a # b /\ answers[a].test_id = answers[b].test_id)
               => answers[a].question_id # answers[b].question_id
    /\ \A t \in SessionIds :
           ResultsOf(t) # {}
               => \A q \in LinkedQuestions(t) :
                      \E a \in 1..Len(answers) :
                          answers[a].test_id = t /\ answers[a].question_id = q

\* C17 (as claimed): in every reachable state a session has
\* duration_minutes set if and only if it has started_at set, whichever
\* handler built it.
C17_DurationIffStarted ==
    \A t \in SessionIds :
        sessions[t].duration_minutes # NULL <=> sessions[t].started_at # NULL

\* C17 (amended): started_at is set only together with duration_minutes; a
\* session built by upload or retry has duration_minutes set if and only if
\* it has started_at set, and a generated session has duration_minutes set
\* from its creation on, started or not.
C17_DurationAndStart ==
    \A t \in SessionIds :
        /\ sessions[t].started_at # NULL => sessions[t].duration_minutes # NULL
        /\ built[t].by \in {"upload", "retry"}
               => (sessions[t].duration_minutes # NULL
                       <=> sessions[t].started_at # NULL)
        /\ built[t].by = "company" => sessions[t].duration_minutes # NULL

\* a generated session that was never started keeps its preset duration
\* beside an uploaded session that was started
C17_Witness ==
    \E s, t \in SessionIds :
        /\ built[s].by = "company"
        /\ sessions[s].started_at = NULL
        /\ sessions[s].duration_minutes = CompanyDuration
        /\ built[t].by = "upload"
        /\ sessions[t].started_at # NULL
        /\ sessions[t].duration_minutes = MaxDuration

\* C19 (as claimed): no two rows of questions have the same text and the
\* same source_name.
C19_QuestionsDeduplicated ==
    \A p, q \in QuestionIds :
        (p # q /\ questions[p].text = questions[q].text)
            => questions[p].source_name # questions[q].source_name

\* C20 (as claimed): no two links of one session have the same question_id,
\* also when a generated assessment holds the same question text twice.
C20_OneLinkPerQuestion ==
    \A l, m \in LinkIds :
        (l # m /\ links[l].test_id = links[m].test_id)
            => links[l].question_id # links[m].question_id

\* C12 (as claimed): a call of the Judge Adapter calls the primary backend
\* first, calls the secondary backend once and only if the primary failed
\* (raised, or answered with something that is not a JSON object), returns
\* the placeholder (correct_answer "A", is_correct = (user_answer = "A"))
\* exactly if no backend is configured or both failed, and never raises.
C12_LayeredFallback ==
    adapterCall.invoked =>
        LET c == adapterCall
            Failed(backend) == backend.kind # "dict"
            bothFailed == Failed(c.primary) /\ Failed(c.secondary)
        IN  /\ ~c.outcome.raised
            /\ apiKey => Len(c.calls) >= 1 /\ c.calls[1] = "primary"
            /\ ~apiKey => c.calls = <<>>
            /\ Count(c.calls, "secondary") =
                   (IF apiKey /\ Failed(c.primary) THEN 1 ELSE 0)
            /\ (~apiKey \/ bothFailed) =>
                   /\ c.outcome.correct_answer = "A"
                   /\ c.outcome.is_correct = (c.user_answer = "A")
            /\ (apiKey /\ ~bothFailed) =>
                   c.outcome =
                       FromData(IF Failed(c.primary) THEN c.secondary
                                ELSE c.primary)

\* C15: start, retry and submit on a test_id that names no session end in
\* a 404 and leave every row of questions, test_sessions, test_questions,
\* answers and results as it was.
C15_NotFoundChangesNothing ==
    [][\A t \in RequestedIds \ SessionIds :
           (\/ \E duration_minutes \in Durations :
                   StartRequest(t, duration_minutes)
            \/ RetryRequest(t, <<>>)
            \/ \E k \in TaskIds :
                   \E answer_map \in [QuestionIds -> LifecycleAnswers] :
                       SubmitRequest(k, t, answer_map))
           => /\ httpError'.status = 404
              /\ UNCHANGED <<questions, sessions, links, answers, results>>]_vars

\* a submit on an unknown test_id was refused while the store holds a
\* session and its result
C15_Witness ==
    /\ httpError = HttpError(404, "submit")
    /\ sessions # <<>>
    /\ results # <<>>

\* C18: a start request whose duration_minutes is outside 1..240 ends in a
\* 422 and leaves every session as it was, and whenever the
\* duration_minutes of a session changes the new value lies in 1..240.
C18_InvalidDurationRejected ==
    [][/\ \A t \in RequestedIds : \A duration_minutes \in RequestedDurations :
              (/\ duration_minutes \notin MinDuration..MaxDuration
               /\ StartRequest(t, duration_minutes))
              => /\ httpError'.status = 422
                 /\ sessions' = sessions
       /\ \A t \in SessionIds :
              sessions'[t].duration_minutes # sessions[t].duration_minutes
              => sessions'[t].duration_minutes \in MinDuration..MaxDuration]_vars

\* a start request was refused for its duration_minutes while a session
\* that was started before keeps its duration and its start time
C18_Witness ==
    /\ httpError = HttpError(422, "start")
    /\ \E t \in SessionIds :
           /\ sessions[t].started_at # NULL
           /\ sessions[t].duration_minutes = MaxDuration

\* C21: converting an options value (a list, a mapping, empty or None) a
\* second time changes nothing, and a mapping is returned as it is.
C21_ConvertIdempotent ==
    helperCall.fn = "convert" =>
        /\ helperCall.twice = helperCall.once
        /\ helperCall.once.type = "dict"
        /\ helperCall.input.type = "dict" => helperCall.once = helperCall.input

\* a list with an option string "A)..." was converted to a mapping with the
\* key "A"
C21_Witness ==
    /\ helperCall.fn = "convert"
    /\ helperCall.input.type = "list"
    /\ \E kv \in helperCall.once.items : kv[1] = <<"A">>
    /\ helperCall.twice = helperCall.once

\* C22: a company-test request whose profile research or assessment
\* generation fails ends in a 500 and leaves the questions, the sessions
\* and the links as they were.
C22_GenerationFailureStoresNothing ==
    [][\A company_name \in Companies :
           \A backend \in CompanyBackends :
               (/\ backend.kind # "assessment"
                /\ GenerateCompanyRequest(company_name, backend))
               => /\ httpError'.status = 500
                  /\ UNCHANGED <<questions, sessions, links>>]_vars

\* a generation failed while the store holds a generated session
C22_Witness ==
    /\ httpError = HttpError(500, "company")
    /\ \E t \in SessionIds : built[t].by = "company" /\ LinksOf(t) # {}

\* C23: whenever a session is in the store, its links are in the store
\* too: as many as its total_questions, with the order_index values
\* 0..N-1; they appear in the step the session appears in, and no later
\* step adds, removes or changes a link of the session.
C23_SessionAndLinksTogether ==
    [][\A t \in 1..Len(sessions') :
           LET after == {l \in 1..Len(links') : links'[l].test_id = t}
           IN  /\ Cardinality(after) = sessions'[t].total_questions
               /\ {links'[l].order_index : l \in after} =
                      0..(sessions'[t].total_questions - 1)
               /\ t \in SessionIds
                      => /\ after = LinksOf(t)
                         /\ \A l \in after : links'[l] = links[l]]_vars

\* a generated session that links two questions of which at least one was
\* in the store before
C23_Witness ==
    \E t \in SessionIds :
        /\ built[t].by = "company"
        /\ sessions[t].total_questions = 2
        /\ Cardinality(LinksOf(t)) = 2
        /\ \E s \in SessionIds :
               s < t /\ LinkedQuestions(s) \cap LinkedQuestions(t) # {}

\* C24: in every step the Answer rows, the Result row and submitted_at of
\* a session change together or not at all: a step that changes one of
\* them adds one Result, one Answer row per link and stamps submitted_at;
\* a session without a Result has submitted_at unset and no Answer rows,
\* also while an evaluation of it waits for a judge call and after an
\* evaluation of it was aborted.
C24_CommitIsAtomic ==
    [][\A t \in SessionIds :
           LET answersBefore == {a \in 1..Len(answers) : answers[a].test_id = t}
               answersAfter == {a \in 1..Len(answers') : answers'[a].test_id = t}
               resultsBefore == {r \in 1..Len(results) : results[r].test_id = t}
               resultsAfter == {r \in 1..Len(results') : results'[r].test_id = t}
           IN  /\ (\/ answersAfter # answersBefore
                   \/ resultsAfter # resultsBefore
                   \/ sessions'[t].submitted_at # sessions[t].submitted_at)
                  => /\ Cardinality(resultsAfter) = Cardinality(resultsBefore) + 1
                     /\ Cardinality(answersAfter) =
                            Cardinality(answersBefore) + Cardinality(LinksOf(t))
                     /\ sessions'[t].submitted_at = now
               /\ resultsAfter = {}
                  => /\ sessions'[t].submitted_at = NULL
                     /\ answersAfter = {}]_vars

\* an evaluation was aborted after it had added an Answer row to its db
\* session, and the store shows its session as not submitted
C24_Witness ==
    \E k \in TaskIds :
        /\ tasks[k].pc = "aborted"
        /\ Len(tasks[k].pending) >= 1
        /\ sessions[tasks[k].test_id].submitted_at = NULL
        /\ ResultsOf(tasks[k].test_id) = {}
        /\ \A a \in 1..Len(answers) : answers[a].test_id # tasks[k].test_id

\* C25: while an evaluation waits for a judge call, answered late or
\* never, every request for another session can be served: start, retry
\* (while the sessions table has room), submit (while a coroutine slot and
\* the results table have room), and the return of each judge call of an
\* evaluation of the other session, up to its commit.
C25_OthersNotBlocked ==
    \A k \in TaskIds :
        tasks[k].pc \in {"judging", "stalled"} =>
            \A b \in SessionIds \ {tasks[k].test_id} :
                /\ \A duration_minutes \in Durations :
                       ENABLED StartTest(b, duration_minutes)
                /\ Len(sessions) < MaxSessions =>
                       \A perm \in Perms(Cardinality(LinksOf(b))) :
                           ENABLED RetryTest(b, perm)
                /\ \A j \in TaskIds : \A answer_map \in [QuestionIds -> LifecycleAnswers] :
                       (/\ tasks[j].pc = "idle"
                        /\ \A i \in TaskIds : i < j => tasks[i].pc # "idle"
                        /\ Len(results) + Cardinality(Running) < MaxResults)
                       => ENABLED SubmitTest(j, b, answer_map)
                /\ \A j \in TaskIds :
                       (tasks[j].pc = "judging" /\ tasks[j].test_id = b)
                       => \A run \in LifecycleRuns : ENABLED JudgeReturn(j, run)

\* the first judge call of an evaluation is never answered, and the
\* evaluation of another session, submitted after it, has had its first
\* judge call answered and waits for its last
C25_Witness ==
    /\ tasks[1].pc = "stalled"
    /\ tasks[1].idx = 1
    /\ tasks[2].pc = "judging"
    /\ tasks[2].test_id # tasks[1].test_id
    /\ tasks[2].idx = 2
    /\ tasks[2].idx = Len(tasks[2].ordered)

\* evaluate_submission run without interruption on session t, the judge
\* calls answering as recorded in calls (the first Len(calls) questions
\* only): the details, the count and the Answer rows it has then
EvaluateInOneGo(t, calls) ==
    LET ordered == OrderedQuestions(t)
        done == 1..Len(calls)
    IN  [details |-> [i \in done |->
                         Detail(ordered[i], calls[i].user_answer,
                                calls[i].evaluation)],
         correct_count |->
             Cardinality({i \in done : calls[i].evaluation.is_correct}),
         pending |-> [i \in done |->
                         AnswerRow(t, ordered[i], calls[i].user_answer)]]

\* the Answer rows of the evaluations committed so far, in commit order
RECURSIVE CommittedAnswers(_)
CommittedAnswers(r) ==
    IF r = 0 THEN <<>>
    ELSE CommittedAnswers(r - 1)
             \o EvaluateInOneGo(results[r].test_id, judged[r]).pending

\* C26: whatever the interleaving of the judge calls of the evaluations in
\* flight, every Result is the one an uninterrupted evaluation of its
\* session with the same judge outcomes gives, the answers table holds
\* the Answer rows of those evaluations and nothing else, and every
\* evaluation still in flight holds what an uninterrupted one would hold
\* after the same calls.
C26_ConcurrentAsSequential ==
    /\ \A r \in ResultIds :
           LET t == results[r].test_id
               alone == EvaluateInOneGo(t, judged[r])
           IN  /\ Len(judged[r]) = Cardinality(LinksOf(t))
               /\ \A i \in 1..Len(judged[r]) :
                      judged[r][i].question_id = OrderedQuestions(t)[i]
               /\ results[r] =
                      ResultRow(t, alone.correct_count, Len(judged[r]),
                                alone.details)
    /\ answers = CommittedAnswers(Len(results))
    /\ \A k \in Running :
           LET alone == EvaluateInOneGo(tasks[k].test_id, tasks[k].log)
           IN  /\ tasks[k].details = alone.details
               /\ tasks[k].correct_count = alone.correct_count
               /\ tasks[k].pending = alone.pending

\* two evaluations of different sessions are in flight, each after its
\* first judge call, and the two calls were answered differently
C26_Witness ==
    /\ tasks[1].pc = "judging"
    /\ tasks[2].pc = "judging"
    /\ tasks[1].test_id # tasks[2].test_id
    /\ Len(tasks[1].details) = 1
    /\ Len(tasks[2].details) = 1
    /\ tasks[1].details[1].is_correct # tasks[2].details[1].is_correct

\* the number of judge calls of the sequence calls made for question q
CallsFor(calls, q) ==
    Cardinality({i \in 1..Len(calls) : calls[i].question_id = q})

\* C27: the judge calls of one evaluation follow the links of its session
\* in ascending order_index, one call is outstanding at a time, and every
\* linked question is judged exactly once in the evaluation, whether its
\* call succeeded or failed.
C27_OneCallPerQuestion ==
    /\ \A r \in ResultIds :
           LET t == results[r].test_id
               ordered == OrderedQuestions(t)
           IN  /\ Len(judged[r]) = Len(ordered)
               /\ \A i \in 1..Len(ordered) :
                      judged[r][i].question_id = ordered[i]
               /\ \A q \in LinkedQuestions(t) : CallsFor(judged[r], q) = 1
    /\ \A k \in Running :
           /\ Len(tasks[k].log) = tasks[k].idx - 1
           /\ \A i \in 1..Len(tasks[k].log) :
                  tasks[k].log[i].question_id = tasks[k].ordered[i]
           /\ \A q \in LinkedQuestions(tasks[k].test_id) :
                  CallsFor(tasks[k].log, q) <= 1

\* C28: no evaluation waits for ever on a judge call: as long as an
\* evaluation is in flight and has not been aborted, its outstanding judge
\* call can still return, with an answer or as a failure, so that the loop
\* goes on to the Result.
C28_EveryJudgeCallReturns ==
    \A k \in TaskIds :
        tasks[k].pc \in {"judging", "stalled"} =>
            ENABLED (\E run \in LifecycleRuns : JudgeReturn(k, run))

\* C29: the total_questions of a session is the number of questions its
\* builder was given and the number of its links, from the step that
\* creates the session on; no later step (start, submit, retry, upload,
\* generation) changes it.
C29_TotalQuestionsFixed ==
    [][\A t \in 1..Len(sessions') :
           /\ sessions'[t].total_questions = Len(built'[t].input)
           /\ sessions'[t].total_questions =
                  Cardinality({l \in 1..Len(links') : links'[l].test_id = t})
           /\ t \in SessionIds
                  => sessions'[t].total_questions = sessions[t].total_questions]_vars

\* a session of two questions was started, submitted and retried
C29_Witness ==
    \E t \in SessionIds :
        /\ sessions[t].total_questions = 2
        /\ sessions[t].started_at # NULL
        /\ sessions[t].submitted_at # NULL
        /\ \E s \in SessionIds : built[s].by = "retry" /\ built[s].from = t

\* C30: a response is parsed as it stands once its fence markers are
\* dropped; when that succeeds the value is the result; only when it fails
\* is the text from the first "{" to the last "}" parsed, and its value is
\* then the result; the call fails exactly when both fail or a boundary
\* is missing. A valid payload between two fences, tagged or not, is the
\* result of the call.
C30_RecoveryOrder ==
    helperCall.fn = "parse" =>
        LET text == helperCall.input
            result == helperCall.result
            keep == {i \in 1..Len(text) :
                        /\ text[i] \notin {"f", " "}
                        /\ ~(text[i] = "j" /\ i > 1 /\ text[i - 1] = "f")}
            opening == {i \in keep : text[i] = "{"}
            closing == {i \in keep : text[i] = "}"}
            between == {i \in keep :
                           /\ \E o \in opening : o <= i
                           /\ \E c \in closing : i <= c}
            whole == [i \in 1..Cardinality(keep) |-> text[Ascending(keep)[i]]]
            payload == [i \in 1..Cardinality(between) |->
                           text[Ascending(between)[i]]]
            directOk == IsJsonValue(whole)
            scanOk == opening # {} /\ closing # {} /\ IsJsonValue(payload)
            inner == SelectSeq(SubSeq(text, IF text[2] = "j" THEN 3 ELSE 2,
                                      Len(text) - 1), NotSpace)
        IN  /\ directOk => result = [ok |-> TRUE, value |-> whole, by |-> "direct"]
            /\ result.by = "scan" => ~directOk
            /\ (~directOk /\ scanOk)
                   => result = [ok |-> TRUE, value |-> payload, by |-> "scan"]
            /\ result.ok = FALSE <=> (~directOk /\ ~scanOk)
            /\ (/\ Len(text) >= 3
                /\ text[1] = "f"
                /\ text[Len(text)] = "f"
                /\ IsJsonValue(inner))
                   => result.ok /\ result.value = inner

\* a response of prose, a fence and an object between the fences: parsing
\* it as it stands fails and the scan recovers the object
C30_Witness ==
    /\ helperCall.fn = "parse"
    /\ helperCall.input = <<"j", "f", "{", "}", "f">>
    /\ helperCall.result = [ok |-> TRUE, value |-> <<"{", "}">>, by |-> "scan"]

\* C31: a session that has both timestamps was started no later than it
\* was submitted, also after a start request on a submitted session.
C31_StartedBeforeSubmitted ==
    \A t \in SessionIds :
        (sessions[t].started_at # NULL /\ sessions[t].submitted_at # NULL)
            => sessions[t].started_at <= sessions[t].submitted_at

\* the number of Answer rows committed before those of Result r
RECURSIVE AnswersBefore(_)
AnswersBefore(r) ==
    IF r = 1 THEN 0 ELSE AnswersBefore(r - 1) + Len(judged[r - 1])

\* C32: an evaluation grades the questions its session links and no
\* others: every details entry and every Answer row of a Result is for a
\* linked question and carries what the answers mapping of the request
\* gives for it (None when the mapping has nothing), every linked question
\* has as many details entries and Answer rows as the session has links
\* to it, the counts add up to the number of links whatever the mapping
\* holds for other questions, and the judge is handed "" for a question
\* without an answer.
C32_OnlyOwnQuestionsGraded ==
    /\ \A r \in ResultIds :
           LET t == results[r].test_id
               own == {l \in LinkIds : links[l].test_id = t}
               linked == {links[l].question_id : l \in own}
               calls == judged[r]
               details == results[r].details
           IN  /\ Len(details) = Cardinality(own)
               /\ Len(calls) = Cardinality(own)
               /\ results[r].correct_count + results[r].wrong_count =
                      Cardinality(own)
               /\ results[r].correct_count =
                      Cardinality({i \in 1..Len(details) : details[i].is_correct})
               /\ \A i \in 1..Len(details) :
                      LET q == details[i].question_id
                          given == calls[i].answers[q]
                          row == answers[AnswersBefore(r) + i]
                      IN  /\ q \in linked
                          /\ details[i].user_answer = given
                          /\ row = [test_id |-> t, question_id |-> q,
                                    selected_option |-> given]
                          /\ calls[i].sent = (IF given = None THEN "" ELSE given)
               /\ \A q \in linked :
                      Cardinality({i \in 1..Len(details) :
                                      details[i].question_id = q})
                          = Cardinality({l \in own : links[l].question_id = q})
    /\ Len(answers) = AnswersBefore(Len(results) + 1)
    /\ \A k \in Running :
           \A i \in 1..Len(tasks[k].details) :
               LET q == tasks[k].details[i].question_id
                   given == tasks[k].answers[q]
               IN  /\ \E l \in LinkIds :
                          links[l].test_id = tasks[k].test_id
                              /\ links[l].question_id = q
                   /\ tasks[k].details[i].user_answer = given
                   /\ tasks[k].log[i].sent = (IF given = None THEN "" ELSE given)

\* a Result of a session with one link whose request gave no answer for the
\* linked question and an answer for a question of another session
C32_Witness ==
    \E r \in ResultIds :
        LET t == results[r].test_id
            own == {l \in LinkIds : links[l].test_id = t}
        IN  /\ Cardinality(own) = 1
            /\ Len(results[r].details) = 1
            /\ judged[r][1].answers[results[r].details[1].question_id] = None
            /\ judged[r][1].sent = ""
            /\ \E q \in QuestionIds :
                   /\ \A l \in own : links[l].question_id # q
                   /\ judged[r][1].answers[q] \in Letters
            /\ \A a \in 1..Len(answers) :
                   answers[a].test_id = t => answers[a].selected_option = None

\* C33: a step of an evaluation (its start, the return of a judge call, its
\* commit, its stall or its abort) leaves the questions and the links as
\* they are, adds and removes no session, and changes no field of any
\* session other than submitted_at, which it changes for the evaluated
\* session only and only in the step that adds the Result.
C33_EvaluateFrame ==
    [][(tasks' # tasks \/ results' # results)
          => /\ questions' = questions
             /\ links' = links
             /\ Len(sessions') = Len(sessions)
             /\ \A t \in SessionIds :
                    /\ sessions'[t].started_at = sessions[t].started_at
                    /\ sessions'[t].duration_minutes = sessions[t].duration_minutes
                    /\ sessions'[t].total_questions = sessions[t].total_questions
                    /\ sessions'[t].submitted_at # sessions[t].submitted_at
                           => /\ Len(results') = Len(results) + 1
                              /\ results'[Len(results')].test_id = t]_vars

\* a session of two links that was started with a duration has been
\* evaluated: it has a Result with two details entries
C33_Witness ==
    \E r \in ResultIds :
        LET t == results[r].test_id
        IN  /\ Len(results[r].details) = 2
            /\ sessions[t].started_at # NULL
            /\ sessions[t].duration_minutes # NULL
            /\ sessions[t].submitted_at # NULL
            /\ Cardinality(LinksOf(t)) = 2

\* C34: a call of get_or_fetch_profile that finds a non-empty profile
\* returns it without invoking fetch_func; otherwise it invokes fetch_func
\* once; when fetch_func raises nothing is stored; when the call returns
\* the profile it returns is the stored one; and a call for a company for
\* which a call has returned, with no delete since, returns the stored
\* profile without invoking fetch_func.
C34_GetOrFetch ==
    [][/\ cacheCall'.calls = cacheCall.calls + 1
          => LET name == SafeName(cacheCall'.company)
                 hit == /\ cacheCall'.pc = "returned"
                        /\ cacheCall'.fetches = 0
                        /\ cacheCall'.value = cacheFiles[name]
             IN  /\ Truthy(cacheFiles[name]) => hit
                 /\ ~Truthy(cacheFiles[name])
                        => cacheCall'.pc = "fetching" /\ cacheCall'.fetches = 1
                 /\ name \in cacheCall.done
                        => Truthy(cacheFiles[name]) /\ hit
       /\ (cacheCall.pc = "fetching" /\ cacheCall'.pc # "fetching")
          => /\ cacheCall'.fetches = 1
             /\ cacheCall'.pc = "raised" => cacheFiles' = cacheFiles
             /\ cacheCall'.pc = "returned"
                    => cacheFiles'[SafeName(cacheCall.company)] = cacheCall'.value]_vars

====
